---- MODULE Spec2Model ----
(***************************************************************************)
(* Model of the chunked upload page (src/app/page.tsx): chunkFile,         *)
(* uploadChunkToS3 with its recursive retry, handleUpload, handleCancel,   *)
(* pollStatus and the backend / object-store requests they issue.          *)
(* One action is one run of the event loop: from the event that resumes    *)
(* the code (a click, a response, a timer) to its next await or return.    *)
(***************************************************************************)
EXTENDS Integers, Sequences, FiniteSets, TLC

(* ---------------- program constants ---------------- *)
CHUNK_SIZE == 5 * 1024 * 1024
MAX_RETRIES == 2

(* ---------------- bounds of the model ---------------- *)
MaxParts == 2
MaxSessions == 2
MaxPolls == 2
MaxClicks == 2
MaxSize == 12
MaxChunkSize == 5

VARIABLES
    file, uploading, status, error, videoUid, cancelled, cancelledRef,
    pc, chunks, startResponse, completeParts, i, retryCount,
    session, startLog, puts, completeLog, statusCount,
    putsInFlight,
    cancelLog, cancelInFlight, cancelClicks, cancelAt, cancelOutcome,
    returned, attempts, failures, lastCall, thrown, lastErr,
    timerArmed, lastStatus,
    ckSize, ckChunk, ckOut, ckDone

uiVars == <<file, uploading, status, error, videoUid, cancelled, cancelledRef>>
runVars == <<pc, chunks, startResponse, completeParts, i, retryCount>>
netVars == <<session, startLog, puts, completeLog, statusCount>>
cancelVars == <<cancelLog, cancelInFlight, cancelClicks, cancelAt, cancelOutcome>>
histVars == <<returned, attempts, failures, lastCall, thrown, lastErr>>
pollVars == <<timerArmed, lastStatus>>
ckVars == <<ckSize, ckChunk, ckOut, ckDone>>
vars == <<uiVars, runVars, netVars, putsInFlight, cancelVars, histVars, pollVars,
          ckVars>>

(* ---------------- values ---------------- *)
NoFile == -1
NoVideo == "null"
NoError == [message |-> "", part |-> 0]
NoThrow == [op |-> "none", err |-> NoError]
NoCancel == [pc |-> "none", i |-> 0, polls |-> 0]
NoResponse == [video |-> NoVideo, parts |-> <<>>]
NoCall == [chunk |-> 0, dest |-> 0, attempts |-> 0, failures |-> 0, etag |-> <<>>]

\* An Error object: its message text and the part number the text embeds
\* (0 when the text names no part).
Err(message, part) == [message |-> message, part |-> part]

\* File sizes a user can select: empty, and one size for each part count
\* 1..MaxParts: an exact multiple of CHUNK_SIZE for an odd count, a size that
\* leaves a last chunk of one byte for an even count.
FileSizes ==
    {0} \cup { IF n % 2 = 1 THEN n * CHUNK_SIZE ELSE (n - 1) * CHUNK_SIZE + 1
                  : n \in 1..MaxParts }

Min(a, b) == IF a < b THEN a ELSE b

(* ---------------- chunkFile ---------------- *)
RECURSIVE chunkLoop(_, _, _, _)
chunkLoop(size, chunkSize, start, acc) ==
    IF start < size
    THEN LET end == Min(start + chunkSize, size)
         IN  chunkLoop(size, chunkSize, end,
                       Append(acc, [start |-> start, end |-> end]))
    ELSE acc

\* chunkFile without the Math.min clamp of a chunk's end
RECURSIVE chunkLoopNoClamp(_, _, _, _)
chunkLoopNoClamp(size, chunkSize, start, acc) ==
    IF start < size
    THEN chunkLoopNoClamp(size, chunkSize, start + chunkSize,
                          Append(acc, [start |-> start, end |-> start + chunkSize]))
    ELSE acc

chunkFileNoClamp(size, chunkSize) == chunkLoopNoClamp(size, chunkSize, 0, <<>>)

chunkFile(size, chunkSize) == chunkLoop(size, chunkSize, 0, <<>>)

(* ---------------- ETag extraction ---------------- *)
Quotes == {"\"", "'"}
Spaces == {" "}
NoHeader == <<"null">>

Front(s) == SubSeq(s, 1, Len(s) - 1)

\* etag.replace(/^["']|["']$/g, ''): one leading and one trailing quote
StripQuotes(s) ==
    LET a == IF Len(s) > 0 /\ s[1] \in Quotes THEN Tail(s) ELSE s
    IN  IF Len(a) > 0 /\ a[Len(a)] \in Quotes THEN Front(a) ELSE a

RECURSIVE TrimLeft(_)
TrimLeft(s) ==
    IF Len(s) > 0 /\ s[1] \in Spaces THEN TrimLeft(Tail(s)) ELSE s

RECURSIVE TrimRight(_)
TrimRight(s) ==
    IF Len(s) > 0 /\ s[Len(s)] \in Spaces THEN TrimRight(Front(s)) ELSE s

Trim(s) == TrimRight(TrimLeft(s))

\* headers.get('ETag') || headers.get('etag') || headers.get('Etag') || ''
HeaderOrEmpty(h) == IF h = NoHeader THEN <<>> ELSE h

ExtractETag(h) == Trim(StripQuotes(HeaderOrEmpty(h)))

\* The object store's ETag of a part is a digest of the bytes it received:
\* here the digest of chunk c (1-based) is the two characters "t", c.
StoreToken(c) == <<"t", ToString(c)>>

\* ETag header values the store may send with a success status for chunk c
HeaderValues(c) ==
    { NoHeader, <<>>, <<"\"", "\"">>, <<" ">>,
      StoreToken(c),
      <<"\"">> \o StoreToken(c) \o <<"\"">>,
      <<"'">> \o StoreToken(c) \o <<"'">> }

\* Outcomes of one PUT attempt
PutOutcomes(c) ==
    { [kind |-> "network", ok |-> FALSE, etag |-> NoHeader],
      [kind |-> "response", ok |-> FALSE, etag |-> NoHeader] }
    \cup { [kind |-> "response", ok |-> TRUE, etag |-> h] : h \in HeaderValues(c) }

\* one attempt that accepts every success response, with or without an ETag
AttemptErrorNoETagCheck(o, partNumber) ==
    IF o.kind = "network" THEN Err("Failed to fetch", 0)
    ELSE IF ~o.ok THEN Err("Failed to upload chunk", partNumber)
    ELSE NoError

\* The error one attempt of uploadChunkToS3 throws, or NoError
AttemptError(o, partNumber) ==
    IF o.kind = "network" THEN Err("Failed to fetch", 0)
    ELSE IF ~o.ok THEN Err("Failed to upload chunk", partNumber)
    ELSE IF ExtractETag(o.etag) = <<>>
         THEN Err("Failed to extract ETag from chunk", partNumber)
    ELSE NoError

\* the retry test with its comparison reversed
ShouldRetryReversed(rc) == rc > MAX_RETRIES

ShouldRetry(rc) == rc < MAX_RETRIES

(* ---------------- backend ---------------- *)
Perms(n) ==
    IF n = 0 THEN {<<>>}
    ELSE { p \in [1..n -> 1..n] : \A a, b \in 1..n : a # b => p[a] # p[b] }

VideoOf(s) == "video-" \o ToString(s)

\* Start responses that honour the backend contract: one destination per
\* part number 1..totalParts, listed in any order.
StartResponses(s, totalParts) ==
    { [video |-> VideoOf(s),
       parts |-> [k \in 1..totalParts |-> [part_number |-> p[k]]]]
        : p \in Perms(totalParts) }

RequestOutcomes == {"ok", "notOk", "network"}
StatusValues == {"completed", "processing", "failed"}

(* ---------------- completeParts.sort ---------------- *)
RECURSIVE InsertPart(_, _)
InsertPart(sorted, e) ==
    IF sorted = <<>> THEN <<e>>
    ELSE IF e.PartNumber < Head(sorted).PartNumber THEN <<e>> \o sorted
    ELSE <<Head(sorted)>> \o InsertPart(Tail(sorted), e)

RECURSIVE SortLoop(_, _)
SortLoop(rest, acc) ==
    IF rest = <<>> THEN acc
    ELSE SortLoop(Tail(rest), InsertPart(acc, Head(rest)))

\* the parts left in the order they were pushed
SortOmitted(parts) == parts

SortByPartNumber(parts) == SortLoop(parts, <<>>)

(* ---------------- handleUpload: the code between two awaits ---------------- *)
\* a cancellation check that never sees the flag
CheckOmitted(c) == FALSE

\* a catch block that reports a fixed text for every error
UnknownError(e) == [message |-> "An unknown error occurred", part |-> 0]

\* line 267: if (cancelledRef.current) break
CancelledBeforeChunk(c) == c

\* line 287: if (cancelledRef.current) return
CancelledBeforeComplete(c) == c

\* line 314: if (!cancelledRef.current) guards setError
SuppressError(c) == c

\* line 315: err instanceof Error ? err.message : 'An unknown error occurred'
ErrorMessage(e) == e

UploadingStatus(idx, total) ==
    "Uploading chunk " \o ToString(idx + 1) \o "/" \o ToString(total) \o "..."

\* every remaining chunk dispatched at once
DispatchRest(idx, total) == (idx + 1)..total

\* lines 272-277: one loop iteration calls uploadChunkToS3 for chunks[idx]
\* alone and awaits it; the chunks dispatched, 1-based
Dispatch(idx, total) == {idx + 1}

\* The for loop from its test for index idx up to the next await or return:
\* dispatches the PUT of chunk idx, or leaves the loop and either returns
\* (cancelled) or sorts the parts and issues Complete.
Resume(resp, idx, parts) ==
    IF idx < Len(chunks) /\ ~CancelledBeforeChunk(cancelledRef)
    THEN [pc |-> "put", i |-> idx, completeParts |-> parts,
          status |-> UploadingStatus(idx, Len(chunks)),
          uploading |-> TRUE,
          puts |-> puts \cup {[chunk |-> c, dest |-> resp.parts[c].part_number]
                                : c \in Dispatch(idx, Len(chunks))},
          dispatched |-> Cardinality(Dispatch(idx, Len(chunks))),
          attempts |-> 1, failures |-> 0,
          completeLog |-> completeLog]
    ELSE IF CancelledBeforeComplete(cancelledRef)
    THEN [pc |-> "done", i |-> idx, completeParts |-> parts,
          status |-> "Upload cancelled",
          uploading |-> FALSE,
          puts |-> puts, dispatched |-> 0,
          attempts |-> attempts, failures |-> failures,
          completeLog |-> completeLog]
    ELSE [pc |-> "complete", i |-> idx,
          completeParts |-> SortByPartNumber(parts),
          status |-> "Completing upload...",
          uploading |-> TRUE,
          puts |-> puts, dispatched |-> 0,
          attempts |-> attempts, failures |-> failures,
          completeLog |-> Append(completeLog,
                                 [video |-> resp.video,
                                  parts |-> SortByPartNumber(parts)])]

\* catch (err) { if (!cancelledRef.current) {...} } finally { setUploading(false) }
Catch(op, e) ==
    /\ thrown' = [op |-> op, err |-> e]
    /\ IF ~SuppressError(cancelledRef)
       THEN error' = ErrorMessage(e) /\ status' = "Upload failed"
       ELSE UNCHANGED <<error, status>>
    /\ uploading' = FALSE
    /\ pc' = "done"

(* ---------------- initial state ---------------- *)
MainInit ==
    /\ file = NoFile /\ uploading = FALSE /\ status = "" /\ error = NoError
    /\ videoUid = NoVideo /\ cancelled = FALSE /\ cancelledRef = FALSE
    /\ pc = "idle" /\ chunks = <<>> /\ startResponse = NoResponse
    /\ completeParts = <<>> /\ i = 0 /\ retryCount = 0
    /\ session = 0 /\ startLog = <<>> /\ puts = {} /\ completeLog = <<>>
    /\ statusCount = 0 /\ putsInFlight = 0
    /\ cancelLog = <<>> /\ cancelInFlight = 0 /\ cancelClicks = 0
    /\ cancelAt = NoCancel /\ cancelOutcome = "none"
    /\ returned = <<>> /\ attempts = 0 /\ failures = 0 /\ lastCall = NoCall
    /\ thrown = NoThrow /\ lastErr = NoError
    /\ timerArmed = FALSE /\ lastStatus = "none"

Init ==
    /\ MainInit
    /\ ckSize = 0 /\ ckChunk = 1 /\ ckOut = <<>> /\ ckDone = FALSE

(* ---------------- actions ---------------- *)
handleFileChange(size) ==
    /\ UNCHANGED putsInFlight
    /\ UNCHANGED pollVars
    /\ ~uploading
    /\ file' = size
    /\ error' = NoError
    /\ status' = ""
    /\ pc' = "idle"
    /\ UNCHANGED <<uploading, videoUid, cancelled, cancelledRef>>
    /\ UNCHANGED <<chunks, startResponse, completeParts, i, retryCount>>
    /\ UNCHANGED <<netVars, cancelVars, histVars, ckVars>>

handleUploadNoFile ==
    /\ UNCHANGED putsInFlight
    /\ UNCHANGED pollVars
    /\ ~uploading
    /\ file = NoFile
    /\ error' = Err("Please select a file", 0)
    /\ UNCHANGED <<file, uploading, status, videoUid, cancelled, cancelledRef>>
    /\ UNCHANGED <<runVars, netVars, cancelVars, histVars, ckVars>>

handleUpload ==
    /\ ~uploading
    /\ file # NoFile
    /\ session < MaxSessions
    /\ uploading' = TRUE
    /\ error' = NoError
    /\ cancelled' = FALSE
    /\ cancelledRef' = FALSE
    /\ videoUid' = NoVideo
    /\ chunks' = chunkFile(file, CHUNK_SIZE)
    /\ status' = "Chunking file into " \o ToString(Len(chunks')) \o " parts..."
    /\ session' = session + 1
    /\ startLog' = <<[totalParts |-> Len(chunks')]>>
    /\ pc' = "start"
    /\ startResponse' = NoResponse
    /\ completeParts' = <<>> /\ i' = 0 /\ retryCount' = 0
    /\ puts' = {} /\ completeLog' = <<>> /\ statusCount' = 0
    /\ putsInFlight' = 0
    /\ cancelLog' = <<>> /\ cancelClicks' = 0 /\ cancelAt' = NoCancel
    /\ cancelOutcome' = "none"
    /\ returned' = [c \in 1..Len(chunks') |-> <<>>]
    /\ attempts' = 0 /\ failures' = 0 /\ lastCall' = NoCall
    /\ thrown' = NoThrow /\ lastErr' = NoError
    /\ lastStatus' = "none"
    \* Cancel requests of the session before settle in cancelUpload (146-160),
    \* which touches no state of the page: they are followed no further
    /\ cancelInFlight' = 0
    /\ UNCHANGED <<file, timerArmed, ckVars>>

StartFails(o) ==
    /\ UNCHANGED putsInFlight
    /\ UNCHANGED pollVars
    /\ pc = "start"
    /\ o # "ok"
    /\ Catch("start", IF o = "network" THEN Err("Failed to fetch", 0)
                      ELSE Err("Failed to start upload", 0))
    /\ UNCHANGED <<file, videoUid, cancelled, cancelledRef>>
    /\ UNCHANGED <<chunks, startResponse, completeParts, i, retryCount>>
    /\ UNCHANGED <<netVars, cancelVars, ckVars>>
    /\ UNCHANGED <<returned, attempts, failures, lastCall, lastErr>>

StartReturns(resp) ==
    /\ UNCHANGED pollVars
    /\ pc = "start"
    /\ startResponse' = resp
    /\ videoUid' = resp.video
    /\ IF cancelledRef
       THEN /\ pc' = "done" /\ uploading' = FALSE
            /\ status' = "Received " \o ToString(Len(resp.parts)) \o " presigned URLs"
            /\ UNCHANGED <<i, completeParts, puts, completeLog>>
            /\ UNCHANGED <<attempts, failures, putsInFlight>>
       ELSE LET r == Resume(resp, 0, <<>>)
            IN  /\ pc' = r.pc /\ i' = r.i /\ completeParts' = r.completeParts
                /\ status' = r.status /\ uploading' = r.uploading
                /\ puts' = r.puts /\ completeLog' = r.completeLog
                /\ putsInFlight' = putsInFlight + r.dispatched
                /\ attempts' = r.attempts /\ failures' = r.failures
    /\ retryCount' = 0
    /\ UNCHANGED <<file, error, cancelled, cancelledRef, chunks>>
    /\ UNCHANGED <<session, startLog, statusCount>>
    /\ UNCHANGED <<cancelVars, returned, lastCall, thrown, lastErr, ckVars>>

\* One PUT attempt of uploadChunkToS3(chunks[i], startResponse.parts[i], retryCount)
\* settles with outcome o.
PutSettles(o) ==
    /\ UNCHANGED pollVars
    /\ pc = "put"
    /\ putsInFlight > 0
    /\ LET part == startResponse.parts[i + 1]
           e == AttemptError(o, part.part_number)
       IN  IF e # NoError
           THEN /\ failures' = failures + 1
                /\ lastErr' = e
                /\ IF ShouldRetry(retryCount)
                   THEN /\ retryCount' = retryCount + 1
                        /\ puts' = puts \cup {[chunk |-> i + 1,
                                                dest |-> part.part_number]}
                        /\ attempts' = attempts + 1
                        /\ putsInFlight' = (putsInFlight - 1) + 1
                        /\ UNCHANGED <<pc, uploading, status, error, thrown>>
                   ELSE /\ Catch("put", e)
                        /\ putsInFlight' = putsInFlight - 1
                        /\ UNCHANGED <<retryCount, puts, attempts>>
                /\ UNCHANGED <<i, completeParts, completeLog, returned, lastCall>>
           ELSE LET etag == ExtractETag(o.etag)
                    r == Resume(startResponse, i + 1,
                                Append(completeParts,
                                       [ETag |-> etag,
                                        PartNumber |-> part.part_number]))
                IN  /\ returned' = [returned EXCEPT ![i + 1] = etag]
                    /\ lastCall' = [chunk |-> i + 1, dest |-> part.part_number,
                                    attempts |-> attempts,
                                    failures |-> failures, etag |-> etag]
                    /\ pc' = r.pc /\ i' = r.i
                    /\ completeParts' = r.completeParts
                    /\ status' = r.status /\ uploading' = r.uploading
                    /\ puts' = r.puts /\ completeLog' = r.completeLog
                    /\ putsInFlight' = (putsInFlight - 1) + r.dispatched
                    /\ attempts' = r.attempts /\ failures' = r.failures
                    /\ retryCount' = 0
                    /\ lastErr' = NoError
                    /\ UNCHANGED <<error, thrown>>
    /\ UNCHANGED <<file, videoUid, cancelled, cancelledRef, chunks, startResponse>>
    /\ UNCHANGED <<session, startLog, statusCount, cancelVars, ckVars>>

CompleteFails(o) ==
    /\ UNCHANGED putsInFlight
    /\ UNCHANGED pollVars
    /\ pc = "complete"
    /\ o # "ok"
    /\ Catch("complete", IF o = "network" THEN Err("Failed to fetch", 0)
                         ELSE Err("Failed to complete upload", 0))
    /\ UNCHANGED <<file, videoUid, cancelled, cancelledRef>>
    /\ UNCHANGED <<chunks, startResponse, completeParts, i, retryCount>>
    /\ UNCHANGED <<netVars, cancelVars, ckVars>>
    /\ UNCHANGED <<returned, attempts, failures, lastCall, lastErr>>

\* completeUpload resolves; pollStatus arms setTimeout(poll, 3000)
CompleteReturns ==
    /\ UNCHANGED putsInFlight
    /\ pc = "complete"
    /\ pc' = "pollWait"
    /\ timerArmed' = TRUE
    /\ UNCHANGED lastStatus
    /\ status' = "Waiting for processing..."
    /\ UNCHANGED <<file, uploading, error, videoUid, cancelled, cancelledRef>>
    /\ UNCHANGED <<chunks, startResponse, completeParts, i, retryCount>>
    /\ UNCHANGED <<netVars, cancelVars, histVars, ckVars>>

(* ---------------- pollStatus ---------------- *)
\* a cancellation check that always sees the flag
CheckAlways(c) == TRUE

\* line 195: if (cancelledRef.current) { resolve(); return; }
CancelledBeforePoll(c) == c

\* line 207: else if (cancelledRef.current) resolve()
CancelledAfterStatus(c) == c

\* line 215: if (cancelledRef.current) resolve() else reject(error)
CancelledOnPollError(c) == c

\* a status test that takes every value but "processing" for the end
IsCompletedLoose(s) == s # "processing"

\* line 204: statusData.status === 'completed'
IsCompleted(s) == s = "completed"

\* a poll that arms the next timer whatever the response was
PollAgainAlways(s, c) == TRUE

\* lines 210-213: the else branch, setTimeout(poll, 5000)
PollAgain(s, c) == ~IsCompleted(s) /\ ~CancelledAfterStatus(c)

\* line 310: if (!cancelledRef.current) setStatus('Upload completed successfully!')
CancelledAfterPoll(c) == c

\* pollStatus resolved: lines 310-312 and the finally block
AfterPoll(st) ==
    /\ status' = IF ~CancelledAfterPoll(cancelledRef) THEN "Upload completed successfully!" ELSE st
    /\ uploading' = FALSE
    /\ pc' = "done"

\* a poll timer fires: poll() runs up to its await or resolve; resolve() on
\* a promise that is already settled does nothing
PollTimer ==
    /\ UNCHANGED putsInFlight
    /\ timerArmed
    /\ timerArmed' = FALSE
    /\ IF CancelledBeforePoll(cancelledRef)
       THEN /\ IF pc = "pollWait"
               THEN AfterPoll(status)
               ELSE UNCHANGED <<status, uploading, pc>>
            /\ UNCHANGED statusCount
       ELSE /\ pc' = IF pc = "pollWait" THEN "status" ELSE pc
            /\ statusCount' = statusCount + 1
            /\ UNCHANGED <<status, uploading>>
    /\ UNCHANGED <<file, error, videoUid, cancelled, cancelledRef>>
    /\ UNCHANGED <<chunks, startResponse, completeParts, i, retryCount>>
    /\ UNCHANGED <<session, startLog, puts, completeLog>>
    /\ UNCHANGED <<cancelVars, histVars, lastStatus, ckVars>>

StatusReturns(s) ==
    /\ UNCHANGED putsInFlight
    /\ pc = "status"
    /\ s = "completed" \/ cancelledRef \/ statusCount < MaxPolls
    /\ lastStatus' = s
    /\ timerArmed' = PollAgain(s, cancelledRef)
    /\ IF IsCompleted(s) \/ CancelledAfterStatus(cancelledRef)
       THEN AfterPoll("Status: " \o s)
       ELSE /\ pc' = "pollWait"
            /\ status' = "Status: " \o s
            /\ UNCHANGED uploading
    /\ UNCHANGED <<file, error, videoUid, cancelled, cancelledRef>>
    /\ UNCHANGED <<chunks, startResponse, completeParts, i, retryCount>>
    /\ UNCHANGED <<netVars, cancelVars, histVars, ckVars>>

StatusFails(o) ==
    /\ UNCHANGED putsInFlight
    /\ UNCHANGED pollVars
    /\ pc = "status"
    /\ o # "ok"
    /\ LET e == IF o = "network" THEN Err("Failed to fetch", 0)
                ELSE Err("Failed to check status", 0)
       IN  IF CancelledOnPollError(cancelledRef)
           THEN /\ AfterPoll(status)
                /\ thrown' = [op |-> "status", err |-> e]
                /\ UNCHANGED error
           ELSE Catch("status", e)
    /\ UNCHANGED <<file, videoUid, cancelled, cancelledRef>>
    /\ UNCHANGED <<chunks, startResponse, completeParts, i, retryCount>>
    /\ UNCHANGED <<netVars, cancelVars, ckVars>>
    /\ UNCHANGED <<returned, attempts, failures, lastCall, lastErr>>

\* a test of the video id that any value passes
HasVideoAlways(v) == TRUE

\* line 326: !videoUid is false once setVideoUid(startResponse.video_uid) ran
HasVideo(v) == v # NoVideo

\* a click on the Cancel button, rendered while uploading
handleCancel ==
    /\ UNCHANGED putsInFlight
    /\ UNCHANGED pollVars
    /\ uploading
    /\ cancelClicks < MaxClicks
    /\ cancelClicks' = cancelClicks + 1
    /\ IF ~HasVideo(videoUid)
       THEN UNCHANGED <<cancelled, cancelledRef, status, cancelLog,
                        cancelInFlight, cancelAt>>
       ELSE /\ cancelled' = TRUE
            /\ cancelledRef' = TRUE
            /\ status' = "Cancelling upload..."
            /\ cancelLog' = Append(cancelLog, videoUid)
            /\ cancelInFlight' = cancelInFlight + 1
            /\ cancelAt' = IF cancelledRef THEN cancelAt
                           ELSE [pc |-> pc, i |-> i, polls |-> statusCount]
    /\ UNCHANGED <<file, uploading, error, videoUid, cancelOutcome>>
    /\ UNCHANGED <<runVars, netVars, histVars, ckVars>>

\* a catch block that reports the failed Cancel request as the page's error
CancelErrorSurfaced(o, err) ==
    IF o = "ok" THEN err ELSE Err("Failed to cancel upload", 0)

\* lines 156-159: cancelUpload's catch logs the failure and does not throw, and
\* handleCancel does not await the call: the page's error stays as it is
ErrorAfterCancel(o, err) == err

\* a Cancel request of the session in progress settles with outcome o
CancelSettles(o) ==
    /\ UNCHANGED putsInFlight
    /\ UNCHANGED pollVars
    /\ cancelInFlight > 0
    /\ cancelInFlight' = cancelInFlight - 1
    /\ cancelOutcome' = o
    /\ error' = ErrorAfterCancel(o, error)
    /\ UNCHANGED <<cancelLog, cancelClicks, cancelAt>>
    /\ UNCHANGED <<file, uploading, status, videoUid, cancelled, cancelledRef>>
    /\ UNCHANGED <<runVars, netVars, histVars, ckVars>>

Next ==
    \/ \E size \in FileSizes : handleFileChange(size)
    \/ handleUploadNoFile
    \/ handleUpload
    \/ \E o \in RequestOutcomes : StartFails(o)
    \/ \E resp \in StartResponses(session, Len(chunks)) : StartReturns(resp)
    \/ \E o \in PutOutcomes(i + 1) : PutSettles(o)
    \/ \E o \in RequestOutcomes : CompleteFails(o)
    \/ CompleteReturns
    \/ PollTimer
    \/ \E s \in StatusValues : StatusReturns(s)
    \/ \E o \in RequestOutcomes : StatusFails(o)
    \/ handleCancel
    \/ \E o \in RequestOutcomes : CancelSettles(o)

Spec == Init /\ [][Next]_vars

(* ---------------- fairness ---------------- *)
\* every request handleUpload awaits (fetch at lines 63, 123, 163, 180)
\* eventually resolves or rejects, and every timer set by pollStatus
\* (lines 212, 224) eventually fires; the user's clicks are not forced
StartSettles ==
    \/ \E o \in RequestOutcomes : StartFails(o)
    \/ \E resp \in StartResponses(session, Len(chunks)) : StartReturns(resp)

PutRequestSettles == \E o \in PutOutcomes(i + 1) : PutSettles(o)

CompleteSettles ==
    \/ \E o \in RequestOutcomes : CompleteFails(o)
    \/ CompleteReturns

StatusSettles ==
    \/ \E s \in StatusValues : StatusReturns(s)
    \/ \E o \in RequestOutcomes : StatusFails(o)

FairSpec ==
    /\ Spec
    /\ WF_vars(StartSettles)
    /\ WF_vars(PutRequestSettles)
    /\ WF_vars(CompleteSettles)
    /\ WF_vars(StatusSettles)
    /\ WF_vars(PollTimer)

(* ---------------- the chunker on its own ---------------- *)
ChunkerInit ==
    /\ MainInit
    /\ ckSize \in 0..MaxSize
    /\ ckChunk \in 1..MaxChunkSize
    /\ ckOut = <<>>
    /\ ckDone = FALSE

RunChunker ==
    /\ UNCHANGED putsInFlight
    /\ UNCHANGED pollVars
    /\ ~ckDone
    /\ ckOut' = chunkFile(ckSize, ckChunk)
    /\ ckDone' = TRUE
    /\ UNCHANGED <<ckSize, ckChunk>>
    /\ UNCHANGED <<uiVars, runVars, netVars, cancelVars, histVars>>

ChunkerNext == RunChunker

ChunkerSpec == ChunkerInit /\ [][ChunkerNext]_vars

(* ---------------- session outcomes ---------------- *)
\* pc = "done": handleUpload has returned and the page is as it left it.
\* pc = "idle": no session yet, or a file was picked after the last one.
Cancelled == pc = "done" /\ cancelledRef
Failed == pc = "done" /\ error # NoError
Succeeded == pc = "done" /\ status = "Upload completed successfully!"

TypeOK ==
    /\ pc \in {"idle", "start", "put", "complete", "pollWait", "status", "done"}
    /\ uploading \in BOOLEAN /\ cancelled \in BOOLEAN /\ cancelledRef \in BOOLEAN
    /\ cancelled = cancelledRef
    /\ retryCount \in 0..MAX_RETRIES
    /\ uploading <=> pc \in {"start", "put", "complete", "pollWait", "status"}
    /\ timerArmed <=> pc = "pollWait"
    /\ putsInFlight \in 0..1
    /\ cancelInFlight \in 0..MaxClicks
    /\ cancelOutcome \in {"none"} \cup RequestOutcomes

(* ======================= claims ======================= *)

PartNumbersOf(parts) == [k \in 1..Len(parts) |-> parts[k].PartNumber]

\* C1: every Complete request carries a part list that is strictly ascending
\* by part number and holds exactly the part numbers 1..totalParts, each once.
C1_CompleteListOrdered ==
    \A r \in 1..Len(completeLog) :
        LET ns == PartNumbersOf(completeLog[r].parts)
        IN  /\ Len(ns) = Len(chunks)
            /\ \A a, b \in 1..Len(ns) : a < b => ns[a] < ns[b]
            /\ { ns[k] : k \in 1..Len(ns) } = 1..Len(chunks)

\* a Complete request was issued after a Start response that listed its
\* destinations out of order
C1_Witness ==
    /\ completeLog # <<>>
    /\ Len(chunks) >= 2
    /\ startResponse.parts[1].part_number # 1

\* C2: the PUT carrying chunk i goes to the destination whose partNumber is i,
\* and the token recorded for partNumber i is the one returned for chunk i,
\* whatever order the Start response lists its destinations in.
C2_ChunkToOwnPart ==
    /\ \A p \in puts : p.dest = p.chunk
    /\ \A k \in 1..Len(completeParts) :
           completeParts[k].ETag = returned[completeParts[k].PartNumber]

\* C3: when cancellation is signaled while the upload of chunk k is in
\* flight, that upload runs to its end (success or exhausted retries), a
\* successful result is appended to the aggregation, no PUT for a later chunk
\* is dispatched, Complete is not called and the session ends Cancelled.
C3_CancelDuringChunk ==
    cancelAt.pc = "put" =>
        LET k == cancelAt.i + 1
        IN  /\ \A p \in puts : p.chunk <= k
            /\ completeLog = <<>>
            /\ pc \in {"put", "done", "idle"}
            /\ pc = "put" => i + 1 = k
            /\ pc = "done" =>
                  /\ Cancelled
                  /\ \/ /\ lastCall.chunk = k
                        /\ Len(completeParts) = k
                        /\ completeParts[k] =
                               [ETag |-> lastCall.etag,
                                PartNumber |-> startResponse.parts[k].part_number]
                     \/ /\ thrown.op = "put"
                        /\ lastCall.chunk = k - 1
                        /\ Len(completeParts) = k - 1

\* cancellation came during chunk k, chunk k then succeeded, and a chunk k+1
\* was left undispatched
C3_Witness ==
    /\ cancelAt.pc = "put"
    /\ pc = "done"
    /\ lastCall.chunk = cancelAt.i + 1
    /\ lastCall.failures >= 1
    /\ cancelAt.i + 1 < Len(chunks)

\* C4: cancellation signaled after Start returned and before Complete is
\* issued means Complete is never issued, the backend Cancel is invoked for
\* the session's objectId, and the session ends Cancelled, neither Succeeded
\* nor Failed.
C4_CancelBeforeComplete ==
    cancelAt.pc = "put" =>
        /\ completeLog = <<>>
        /\ statusCount = 0
        /\ cancelLog # <<>>
        /\ \A k \in 1..Len(cancelLog) : cancelLog[k] = startResponse.video
        /\ startResponse.video = VideoOf(session)
        /\ pc = "done" => Cancelled /\ ~Succeeded /\ ~Failed

\* cancellation came during the last chunk, which then succeeded: every chunk
\* is uploaded and still no Complete follows
C4_Witness ==
    /\ cancelAt.pc = "put"
    /\ cancelAt.i + 1 = Len(chunks)
    /\ Len(chunks) >= 2
    /\ pc = "done"
    /\ lastCall.chunk = Len(chunks)

\* C5: a part whose PUT fails N < maxRetries times and then succeeds makes
\* uploadChunkToS3 succeed with the token of the successful attempt after
\* exactly N+1 PUTs, all against the same destination.
C5_RetryBound ==
    /\ lastCall.chunk # 0 =>
          /\ lastCall.attempts = lastCall.failures + 1
          /\ lastCall.failures <= MAX_RETRIES
          /\ lastCall.etag = StoreToken(lastCall.chunk)
          /\ returned[lastCall.chunk] = lastCall.etag
          /\ \A p \in puts : p.chunk = lastCall.chunk => p.dest = lastCall.dest
          /\ lastCall.dest = startResponse.parts[lastCall.chunk].part_number
    /\ pc = "put" => attempts = failures + 1
    /\ thrown.op = "put" => failures >= MAX_RETRIES

\* a call that failed once (N = 1 < maxRetries) and then succeeded
C5_Witness ==
    /\ lastCall.chunk # 0
    /\ lastCall.failures = MAX_RETRIES - 1
    /\ lastCall.attempts = MAX_RETRIES

\* C6: a part whose PUT always fails gets exactly maxRetries+1 attempts, the
\* failure of the last attempt is the one propagated, and the propagated error
\* references that part's number.
C6_RetryExhaustion ==
    thrown.op = "put" =>
        /\ attempts = MAX_RETRIES + 1
        /\ failures = MAX_RETRIES + 1
        /\ thrown.err = lastErr
        /\ thrown.err.part = startResponse.parts[i + 1].part_number

\* C7: a source of size 0 yields zero chunks and the coordinator issues no
\* Start request with totalParts = 0, hence no Complete or Status request.
C7_NoStartForEmptyFile ==
    /\ chunkFile(0, CHUNK_SIZE) = <<>>
    /\ \A k \in 1..Len(startLog) : startLog[k].totalParts # 0
    /\ (uploading /\ file = 0) => completeLog = <<>> /\ statusCount = 0

Ceil(a, b) == (a + b - 1) \div b

\* C8: for size >= 1 and chunk size C >= 1 chunking yields ceil(size/C)
\* chunks; chunk k (0-based) spans [k*C, min((k+1)*C, size)), so the ranges
\* are contiguous, non-overlapping, non-empty, cover [0, size) and only the
\* last may be shorter than C.
C8_ChunkRanges ==
    (ckDone /\ ckSize >= 1) =>
        LET n == Len(ckOut)
        IN  /\ n = Ceil(ckSize, ckChunk)
            /\ \A k \in 1..n :
                   /\ ckOut[k].start = (k - 1) * ckChunk
                   /\ ckOut[k].end = Min(k * ckChunk, ckSize)
                   /\ ckOut[k].start < ckOut[k].end
            /\ ckOut[1].start = 0
            /\ ckOut[n].end = ckSize
            /\ \A k \in 1..(n - 1) :
                   /\ ckOut[k + 1].start = ckOut[k].end
                   /\ ckOut[k].end - ckOut[k].start = ckChunk

\* a size that is no multiple of the chunk size: three chunks, the last short
C8_Witness ==
    /\ ckDone
    /\ ckSize = 2 * ckChunk + 1
    /\ ckChunk >= 2
    /\ Len(ckOut) = 3

\* C9: once cancellation is signaled, the failure of an operation already in
\* flight (a part PUT after its retries, Complete, a Status request) is
\* suppressed: no error is reported and the session does not end Failed.
C9_FailureSuppressed ==
    /\ cancelledRef => error = NoError /\ ~Failed
    /\ (cancelledRef /\ thrown # NoThrow) =>
          /\ thrown.op \in {"put", "complete", "status"}
          /\ pc \in {"done", "idle"}
          /\ pc = "done" => Cancelled
          /\ status # "Upload failed"

\* the Complete call failed after cancellation had been signaled
C9_Witness ==
    /\ cancelledRef
    /\ thrown.op = "complete"
    /\ cancelAt.pc = "complete"
    /\ pc = "done"

\* C10: when the Part Uploader fails for a chunk after its retries and
\* cancellation is not signaled, the session ends Failed with that error
\* surfaced, no PUT for a later chunk is dispatched, and neither Complete nor
\* a Status request is issued.
C10_UploaderFailure ==
    (thrown.op = "put" /\ ~cancelledRef) =>
        /\ pc \in {"done", "idle"}
        /\ pc = "done" =>
              /\ Failed
              /\ error = thrown.err
              /\ error = lastErr
              /\ status = "Upload failed"
        /\ \A p \in puts : p.chunk <= i + 1
        /\ completeLog = <<>>
        /\ statusCount = 0

\* the first chunk of a file of several chunks failed for good
C10_Witness ==
    /\ thrown.op = "put"
    /\ ~cancelledRef
    /\ pc = "done"
    /\ i = 0
    /\ Len(chunks) >= 2

\* C11: once cancellation is signaled while the session is polling (during
\* the initial delay, an inter-poll delay, or with a Status request in
\* flight), no further Status request is issued and the session ends
\* Cancelled.
C11_CancelDuringPolling ==
    cancelAt.pc \in {"pollWait", "status"} =>
        /\ statusCount = cancelAt.polls
        /\ pc \in {cancelAt.pc, "done", "idle"}
        /\ pc = "done" => Cancelled /\ ~Succeeded /\ ~Failed

\* cancellation came during an inter-poll delay, after one Status response,
\* and the session has ended
C11_Witness ==
    /\ cancelAt.pc = "pollWait"
    /\ cancelAt.polls >= 1
    /\ pc = "done"

\* C12: "completed" is the only status value that ends polling with success:
\* Succeeded is reached only after Complete succeeded and a Status response
\* said "completed"; after any other value, while not cancelled, the poller
\* arms the inter-poll timer and asks again, however many polls were made.
C12_OnlyCompletedEndsPolling ==
    /\ Succeeded =>
          /\ lastStatus = "completed"
          /\ statusCount >= 1
          /\ Len(completeLog) = 1
          /\ thrown = NoThrow
          /\ ~cancelledRef
          /\ error = NoError
    /\ (lastStatus \notin {"none", "completed"} /\ ~cancelledRef
            /\ thrown.op # "status") =>
          /\ pc \in {"pollWait", "status"}
          /\ pc = "pollWait" => timerArmed
          /\ status \in {"Status: " \o lastStatus, "Cancelling upload..."}

\* the last poll the bound allows is in flight after a response "failed",
\* a value other than "completed"
C12_Witness ==
    /\ pc = "status"
    /\ statusCount = MaxPolls
    /\ statusCount >= 2
    /\ lastStatus = "failed"
    /\ ~cancelledRef

\* C13: a Status request that fails (network error or non-success response)
\* while cancellation is not signaled stops the polling with that failure:
\* the session ends Failed, the error is surfaced, and no further Status
\* request is issued.
C13_StatusFailure ==
    (thrown.op = "status" /\ ~cancelledRef) =>
        /\ pc \in {"done", "idle"}
        /\ ~timerArmed
        /\ thrown.err.message \in {"Failed to fetch", "Failed to check status"}
        /\ pc = "done" =>
              /\ Failed
              /\ ~Succeeded
              /\ error = thrown.err
              /\ status = "Upload failed"

\* the second Status request of a session failed with a non-success response
C13_Witness ==
    /\ thrown.op = "status"
    /\ thrown.err.message = "Failed to check status"
    /\ ~cancelledRef
    /\ statusCount >= 2
    /\ pc = "done"

\* C14: the backend Cancel notification is best-effort: whether the Cancel
\* request succeeds, gets a non-success response or fails at the network
\* level, no error is surfaced and the session's terminal state is Cancelled;
\* the session goes on, and may end, while the Cancel request is in flight.
C14_CancelBestEffort ==
    /\ cancelOutcome \in {"none", "ok", "notOk", "network"}
    /\ cancelOutcome # "none" =>
          /\ cancelledRef
          /\ error = NoError
          /\ pc = "done" => Cancelled /\ ~Failed /\ ~Succeeded
    /\ cancelInFlight > 0 => cancelledRef /\ error = NoError

\* one Cancel request of the session got a non-success response, a second
\* one is still in flight, and the session has ended Cancelled
C14_Witness ==
    /\ Cancelled
    /\ cancelOutcome = "notOk"
    /\ cancelInFlight > 0

\* C15: signalling is idempotent: within one session a click on Cancel made
\* when the flag is already set changes no state of the page and sends no
\* further Cancel request.
C15_SignalIdempotent ==
    [][(cancelledRef /\ cancelClicks' = cancelClicks + 1) =>
          /\ cancelLog' = cancelLog
          /\ cancelInFlight' = cancelInFlight
          /\ UNCHANGED <<uiVars, runVars, netVars>>]_vars

\* C16: every token recorded in the aggregation and submitted to Complete is
\* non-empty: a success response whose ETag header is absent, or empty after
\* quote stripping and trimming, is a failed attempt under the same retry
\* policy and never produces an uploaded part.
NoETagMessage == "Failed to extract ETag from chunk"

MissingETagIsFailure ==
    \A c \in 1..MaxParts : \A o \in PutOutcomes(c) :
        (o.ok /\ ExtractETag(o.etag) = <<>>) =>
            AttemptError(o, c) = Err(NoETagMessage, c)

C16_TokensNonEmpty ==
    /\ \A k \in 1..Len(completeParts) : completeParts[k].ETag # <<>>
    /\ \A n \in 1..Len(completeLog) :
           \A k \in 1..Len(completeLog[n].parts) :
               completeLog[n].parts[k].ETag # <<>>
    /\ \A c \in 1..Len(returned) : c <= i => returned[c] # <<>>
    /\ lastCall # NoCall => lastCall.etag # <<>>
    /\ MissingETagIsFailure
    /\ (pc = "put" /\ lastErr.message = NoETagMessage) =>
          /\ failures >= 1
          /\ retryCount \in 1..MAX_RETRIES
          /\ attempts = failures + 1
          /\ Len(completeParts) = i
    /\ (thrown.op = "put" /\ thrown.err.message = NoETagMessage) =>
          /\ attempts = MAX_RETRIES + 1
          /\ failures = MAX_RETRIES + 1
          /\ completeLog = <<>>

\* chunk 1 has been recorded, and chunk 2 is being retried after a success
\* response that carried no usable ETag
C16_Witness ==
    /\ pc = "put"
    /\ lastErr.message = NoETagMessage
    /\ retryCount >= 1
    /\ Len(completeParts) >= 1

\* C17: within a session at most one PUT request is in flight at any time,
\* retries included: the PUT for chunk i+1 is dispatched only after the upload
\* of chunk i, with all its retries, has returned successfully, so chunks are
\* dispatched in increasing index order.
ChunksDispatched == { p.chunk : p \in puts }

C17_OnePutInFlight ==
    /\ putsInFlight \in {0, 1}
    /\ putsInFlight = 1 <=> pc = "put"
    /\ ChunksDispatched = 1..Cardinality(ChunksDispatched)
    /\ \A p \in puts : \A c \in 1..(p.chunk - 1) :
           c <= Len(returned) /\ returned[c] # <<>>
    /\ pc = "put" =>
          /\ ChunksDispatched = 1..(i + 1)
          /\ returned[i + 1] = <<>>
          /\ attempts = failures + 1
          /\ attempts = retryCount + 1

\* chunk 1 returned after a failed attempt, and chunk 2 is on a retry
C17_Witness ==
    /\ pc = "put"
    /\ i = 1
    /\ retryCount >= 1
    /\ lastCall.chunk = 1
    /\ lastCall.failures >= 1
    /\ putsInFlight = 1

\* C18: if every issued request eventually returns or fails and every timer
\* eventually fires, a running session in which cancellation has been
\* signalled eventually reaches a terminal state, whatever statuses the
\* backend reports; and with no cancellation, polling ends only on a
\* "completed" status or on a failed Status request.
C18_CancelEndsSession ==
    /\ (uploading /\ cancelledRef) ~> (pc = "done")
    /\ [][(pc \in {"pollWait", "status"} /\ pc' = "done" /\ ~cancelledRef) =>
             \/ lastStatus' = "completed" /\ Succeeded'
             \/ thrown'.op = "status" /\ Failed']_vars

\* cancellation was signalled during polling, the backend's last report was
\* "processing", and the session has ended
C18_Witness ==
    /\ pc = "done"
    /\ Cancelled
    /\ cancelAt.pc \in {"pollWait", "status"}
    /\ cancelAt.polls >= 1
    /\ lastStatus = "processing"

\* C19: a click on Cancel made while the session runs but before the Start
\* response has arrived has no effect: the flag stays unset, no Cancel request
\* is sent and the session goes on to upload its chunks; so the check made
\* between receiving the destinations and the first chunk never sees the flag.
ReceivedStatus(n) == "Received " \o ToString(n) \o " presigned URLs"

C19_CancelBeforeStart ==
    /\ pc = "start" =>
          /\ ~cancelledRef /\ ~cancelled
          /\ cancelLog = <<>> /\ cancelInFlight = 0
          /\ cancelAt = NoCancel
          /\ status = "Chunking file into " \o ToString(Len(chunks)) \o " parts..."
    /\ cancelAt.pc \in {"none", "put", "complete", "pollWait", "status"}
    /\ \A n \in 0..MaxParts : status # ReceivedStatus(n)
    /\ (startResponse # NoResponse /\ Len(chunks) > 0) => puts # {}
    /\ \A k \in 1..Len(cancelLog) : cancelLog[k] = VideoOf(session)

\* Cancel was clicked before the Start response; the first PUT is in flight
\* with the flag unset and no Cancel request sent
C19_Witness ==
    /\ pc = "put"
    /\ cancelClicks >= 1
    /\ ~cancelledRef
    /\ cancelLog = <<>>
    /\ cancelInFlight = 0

\* C20: terminal states are absorbing for the session's own requests: once a
\* session is Succeeded, Failed or Cancelled, no PUT, Complete or Status
\* request is issued for it any more, no poll timer armed earlier is left to
\* fire, and Complete is issued at most once per session.
Terminal == pc \in {"done", "idle"}

C20_TerminalAbsorbing ==
    /\ [](Len(completeLog) <= 1)
    /\ [](Terminal => ~uploading /\ ~timerArmed /\ putsInFlight = 0)
    /\ [][(Terminal /\ session' = session) =>
             /\ Terminal'
             /\ puts' = puts
             /\ completeLog' = completeLog
             /\ statusCount' = statusCount
             /\ putsInFlight' = putsInFlight
             /\ timerArmed' = timerArmed]_vars

\* a session that polled twice, ended Succeeded and left no timer armed
C20_Witness ==
    /\ Succeeded
    /\ statusCount >= 2
    /\ Len(completeLog) = 1
    /\ ~timerArmed

====
